---- MODULE Spec2Model ----
(***************************************************************************)
(* Model of amaa_dashboard_demo.py: the seeded "unified effect data"       *)
(* generator (generate_unified_effect_data) and the part of the history    *)
(* page (show_history_analysis) that invokes it twice per script run.      *)
(*                                                                         *)
(* Numbers.  The program computes in float64.  The model computes in exact *)
(* rationals (records [num, den] in lowest terms), plus one extra value    *)
(* NaN with IEEE/Python semantics (arithmetic propagates it, every         *)
(* comparison with it is false).  A draw of the generator in [0, 1) is one *)
(* of the DrawLevels values k / DrawLevels, k in 0 .. DrawLevels - 1.      *)
(*                                                                         *)
(* Strings are sequences of character codes, so that concatenation and     *)
(* '_'.join are computed, and the hash reads the characters in order.      *)
(***************************************************************************)
EXTENDS Integers, Sequences, FiniteSets, TLC

(***************************************************************************)
(* Bounds of the model.                                                    *)
(***************************************************************************)
\* the user selects as features the first n feature options, n <= MaxFeatures
MaxFeatures == 5
\* the delay options offered are 1 .. DelayCap (the program offers 1..30 or 1..12)
DelayCap == 2
\* control variables are selected among the first MaxControls control options
MaxControls == 2
\* the user selects as targets the last n target options, n <= MaxTargets
MaxTargets == 2
\* resolution of one draw in [0, 1)
DrawLevels == 20

(***************************************************************************)
(* Bind(e, Body): Body applied to the value of e, with e evaluated once.   *)
(***************************************************************************)
Bind(e, Body(_)) == CHOOSE r \in {Body(v) : v \in {e}} : TRUE

(***************************************************************************)
(* Exact rationals with NaN.                                               *)
(***************************************************************************)
RECURSIVE GCD(_, _)
GCD(a, b) == IF b = 0 THEN a ELSE GCD(b, a % b)

NaN == [num |-> 0, den |-> 0]

IsNaN(x) == x.den = 0

\* n / d in lowest terms, for n >= 0 and d > 0
Rat(n, d) ==
    LET g == GCD(n, d) IN [num |-> n \div g, den |-> d \div g]

RInt(n) == [num |-> n, den |-> 1]

\* the values a float takes here: non-negative rationals, and nan
Float == [num : Nat, den : Nat]

AddF[x \in Float, y \in Float] ==
    IF IsNaN(x) \/ IsNaN(y) THEN NaN
    ELSE LET g == GCD(x.den, y.den)
             l == (x.den \div g) * y.den
         IN  Rat(x.num * (l \div x.den) + y.num * (l \div y.den), l)

MulF[x \in Float, y \in Float] ==
    IF IsNaN(x) \/ IsNaN(y) THEN NaN
    ELSE LET g1 == GCD(x.num, y.den)
             g2 == GCD(y.num, x.den)
         IN  Rat((x.num \div g1) * (y.num \div g2), (x.den \div g2) * (y.den \div g1))

LessF[x \in Float, y \in Float] ==
    /\ ~IsNaN(x)
    /\ ~IsNaN(y)
    /\ LET g == GCD(x.den, y.den)
       IN  x.num * (y.den \div g) < y.num * (x.den \div g)

\* x + y
RAdd(x, y) == AddF[x, y]

\* x * y
RMul(x, y) == MulF[x, y]

\* x / y as float division does it: 0.0 / 0 is nan (numpy mean of nothing)
RDiv(x, y) == MulF[x, IF y.num = 0 THEN NaN ELSE [num |-> y.den, den |-> y.num]]

\* x < y; false when either side is nan
RLess(x, y) == LessF[x, y]

\* x <= y; false when either side is nan
RLeq(x, y) == LessF[x, y] \/ (~IsNaN(x) /\ x = y)

RECURSIVE RSum(_)
RSum(s) == IF s = <<>> THEN RInt(0) ELSE RAdd(s[1], RSum(Tail(s)))

\* Python's builtin min(a, b): b replaces a only when b < a
PyMinF[a \in Float, b \in Float] == IF RLess(b, a) THEN b ELSE a

PyMin(a, b) == PyMinF[a, b]

\* Python's builtin max(a, b): b replaces a only when b > a
PyMaxF[a \in Float, b \in Float] == IF RLess(a, b) THEN b ELSE a

PyMax(a, b) == PyMaxF[a, b]

\* numpy.mean of a sequence: sum / len, nan for the empty sequence
NpMean(s) == RDiv(RSum(s), RInt(Len(s)))

(***************************************************************************)
(* Strings: sequences of character codes.  Code 0 is '_'.                  *)
(***************************************************************************)
Underscore == <<0>>

\* sep.join(parts)
RECURSIVE Join(_, _)
Join(sep, parts) ==
    IF parts = <<>> THEN <<>>
    ELSE IF Len(parts) = 1 THEN parts[1]
    ELSE parts[1] \o sep \o Join(sep, Tail(parts))

(***************************************************************************)
(* hash(str).  CPython salts the string hash once per process, so the      *)
(* salt is a parameter that a behaviour fixes at start.  The hash reads the *)
(* characters in order; its value is then reduced % 10000 by the caller.   *)
(***************************************************************************)
RECURSIVE HashFrom(_, _)
HashFrom(h, str) ==
    IF str = <<>> THEN h
    ELSE HashFrom((h * 131 + str[1] + 1) % 1000003, Tail(str))

hash(salt, str) == HashFrom(salt + 7, str)

\* the modulus applied to every hash that becomes a seed
SeedModulus == 10000

(***************************************************************************)
(* The process-wide numpy generator: its state is one number.              *)
(*   np_random_seed(s)  the state after np.random.seed(s)                  *)
(*   NpAdvance(x)       the state after one draw                           *)
(*   NpLevel(x)         the level k of the draw made in state x: the draw  *)
(*                      is the number k / DrawLevels of [0, 1)             *)
(***************************************************************************)
np_random_seed(s) == (s * 7919 + 13) % 10007

NpAdvance(x) == (x * 1103 + 4567) % 10007

NpLevel(x) == (NpAdvance(x) * DrawLevels) \div 10007

\* np.random.random() with values of [0, 2) instead of [0, 1)
np_random_random_wide(x) ==
    Bind(x, LAMBDA state :
        [value |-> Rat(2 * NpLevel(state), DrawLevels), rng |-> NpAdvance(state)])

\* np.random.random(): value and next state
np_random_random(x) ==
    Bind(x, LAMBDA state :
        [value |-> Rat(NpLevel(state), DrawLevels), rng |-> NpAdvance(state)])

\* np.random.uniform(lo, hi): lo + (hi - lo) * random(); width is hi - lo
np_random_uniform(x, lo, width) ==
    Bind(np_random_random(x),
      LAMBDA r : [value |-> RAdd(lo, RMul(width, r.value)), rng |-> r.rng])

\* np.random.uniform(lo, hi, n): n draws in order
RECURSIVE np_random_uniform_n(_, _, _, _)
np_random_uniform_n(x, lo, width, n) ==
    IF n = 0 THEN [value |-> <<>>, rng |-> x]
    ELSE Bind(np_random_uniform(x, lo, width),
           LAMBDA d :
         Bind(np_random_uniform_n(d.rng, lo, width, n - 1),
           LAMBDA rest : [value |-> <<d.value>> \o rest.value, rng |-> rest.rng]))

(***************************************************************************)
(* generate_unified_effect_data(targets, features, delays, date_range_key, *)
(* control_vars).  The operators take two more arguments: the process's    *)
(* hash salt and the state rng of the shared generator at the call.        *)
(* The loops run over the (target, feature) pairs, targets outermost.      *)
(***************************************************************************)
Range(s) == {s[i] : i \in DOMAIN s}

\* the pairs <<target, feature>> in the order the two nested loops visit them
Pairs(targets, features) ==
    [k \in 1 .. Len(targets) * Len(features) |->
        << targets[((k - 1) \div Len(features)) + 1],
           features[((k - 1) % Len(features)) + 1] >>]

\* seed of the influence session: control variables joined in the given order
InfluenceSeed(salt, feature, target, date_range_key, control_vars) ==
    hash(salt, feature \o target \o date_range_key \o Join(Underscore, control_vars))
        % SeedModulus

\* seed of the base session: control variables excluded
BaseSeed(salt, feature, target, date_range_key) ==
    hash(salt, feature \o target \o date_range_key) % SeedModulus

\* InfluencePass without the np.random.seed call: the draw continues the stream
RECURSIVE InfluencePassUnseeded(_, _, _, _, _, _)
InfluencePassUnseeded(pairs, salt, date_range_key, control_vars, rng, acc) ==
    IF pairs = <<>> THEN [influence_factors |-> acc, rng |-> rng]
    ELSE Bind(np_random_random(rng),
           LAMBDA draw :
             InfluencePassUnseeded(Tail(pairs), salt, date_range_key, control_vars, draw.rng,
                 (pairs[1] :> RAdd(Rat(85, 100), RMul(draw.value, Rat(3, 10)))) @@ acc))

\* InfluencePass with the draw taken before the np.random.seed call of its pair
RECURSIVE InfluencePassSeedAfterDraw(_, _, _, _, _, _)
InfluencePassSeedAfterDraw(pairs, salt, date_range_key, control_vars, rng, acc) ==
    IF pairs = <<>> THEN [influence_factors |-> acc, rng |-> rng]
    ELSE Bind(np_random_random(rng),
           LAMBDA draw :
             InfluencePassSeedAfterDraw(Tail(pairs), salt, date_range_key, control_vars,
                 np_random_seed(InfluenceSeed(salt, pairs[1][2], pairs[1][1],
                                              date_range_key, control_vars)),
                 (pairs[1] :> RAdd(Rat(85, 100), RMul(draw.value, Rat(3, 10)))) @@ acc))

\* first loop: one seeded session per pair, one draw, 0.85 + random() * 0.3
RECURSIVE InfluencePass(_, _, _, _, _, _)
InfluencePass(pairs, salt, date_range_key, control_vars, rng, acc) ==
    IF pairs = <<>> THEN [influence_factors |-> acc, rng |-> rng]
    ELSE Bind(np_random_random(np_random_seed(
                  InfluenceSeed(salt, pairs[1][2], pairs[1][1], date_range_key,
                                control_vars))),
           LAMBDA draw :
             InfluencePass(Tail(pairs), salt, date_range_key, control_vars, draw.rng,
                 (pairs[1] :> RAdd(Rat(85, 100), RMul(draw.value, Rat(3, 10)))) @@ acc))

\* BaseSample with the ROI multiplier drawn before the trend values
BaseSampleRoiFirst(salt, feature, target, delays, date_range_key, influence_factor, rng) ==
    Bind(np_random_uniform(np_random_seed(BaseSeed(salt, feature, target, date_range_key)),
                           Rat(4, 5), Rat(2, 5)),
      LAMBDA roi_draw :
    Bind(np_random_uniform_n(roi_draw.rng, Rat(1, 2), RInt(2), Len(delays)),
      LAMBDA base_trend :
    Bind(NpMean(base_trend.value),
      LAMBDA trend_mean :
    Bind(RMul(trend_mean, roi_draw.value),
      LAMBDA base_roi :
    Bind(PyMax(RInt(5), PyMin(RInt(30), RMul(RDiv(trend_mean, Rat(5, 2)), RInt(30)))),
      LAMBDA base_contribution :
        [base_trend        |-> base_trend.value,
         base_roi          |-> base_roi,
         base_contribution |-> base_contribution,
         roi          |-> RMul(base_roi, influence_factor),
         contribution |-> RMul(base_contribution, influence_factor),
         trend        |-> [i \in DOMAIN base_trend.value |->
                              RMul(base_trend.value[i], influence_factor)],
         rng          |-> base_trend.rng])))))

\* BaseSample with the delay values made part of the base seed's string
BaseSampleDelaySeeded(salt, feature, target, delays, date_range_key, influence_factor, rng) ==
    Bind(np_random_uniform_n(
             np_random_seed(hash(salt, feature \o target \o date_range_key \o delays)
                                % SeedModulus),
             Rat(1, 2), RInt(2), Len(delays)),
      LAMBDA base_trend :
    Bind(np_random_uniform(base_trend.rng, Rat(4, 5), Rat(2, 5)),
      LAMBDA roi_draw :
    Bind(NpMean(base_trend.value),
      LAMBDA trend_mean :
    Bind(RMul(trend_mean, roi_draw.value),
      LAMBDA base_roi :
    Bind(PyMax(RInt(5), PyMin(RInt(30), RMul(RDiv(trend_mean, Rat(5, 2)), RInt(30)))),
      LAMBDA base_contribution :
        [base_trend        |-> base_trend.value,
         base_roi          |-> base_roi,
         base_contribution |-> base_contribution,
         roi          |-> RMul(base_roi, influence_factor),
         contribution |-> RMul(base_contribution, influence_factor),
         trend        |-> [i \in DOMAIN base_trend.value |->
                              RMul(base_trend.value[i], influence_factor)],
         rng          |-> roi_draw.rng])))))

\* body of the second loop for one pair: the seeded base session and the
\* values derived from it
BaseSample(salt, feature, target, delays, date_range_key, influence_factor, rng) ==
    Bind(np_random_uniform_n(np_random_seed(BaseSeed(salt, feature, target, date_range_key)),
                             Rat(1, 2), RInt(2), Len(delays)),
      LAMBDA base_trend :
    Bind(np_random_uniform(base_trend.rng, Rat(4, 5), Rat(2, 5)),
      LAMBDA roi_draw :
    Bind(NpMean(base_trend.value),
      LAMBDA trend_mean :
    Bind(RMul(trend_mean, roi_draw.value),
      LAMBDA base_roi :
    Bind(PyMax(RInt(5), PyMin(RInt(30), RMul(RDiv(trend_mean, Rat(5, 2)), RInt(30)))),
      LAMBDA base_contribution :
        [base_trend        |-> base_trend.value,
         base_roi          |-> base_roi,
         base_contribution |-> base_contribution,
         roi          |-> RMul(base_roi, influence_factor),
         contribution |-> RMul(base_contribution, influence_factor),
         trend        |-> [i \in DOMAIN base_trend.value |->
                              RMul(base_trend.value[i], influence_factor)],
         rng          |-> roi_draw.rng])))))

\* second loop
RECURSIVE BasePass(_, _, _, _, _, _, _)
BasePass(pairs, salt, delays, date_range_key, influence_factors, rng, acc) ==
    IF pairs = <<>> THEN [base_data |-> acc, rng |-> rng]
    ELSE Bind(BaseSample(salt, pairs[1][2], pairs[1][1], delays, date_range_key,
                         influence_factors[pairs[1]], rng),
           LAMBDA sample :
             BasePass(Tail(pairs), salt, delays, date_range_key, influence_factors,
                      sample.rng, (pairs[1] :> sample) @@ acc))

\* sum of the contributions of the pairs in the set ps
RECURSIVE ContributionOver(_, _)
ContributionOver(base_data, ps) ==
    IF ps = {} THEN RInt(0)
    ELSE LET p == CHOOSE q \in ps : TRUE
         IN  RAdd(base_data[p].contribution, ContributionOver(base_data, ps \ {p}))

\* TotalContribution summed over every target's pairs instead of one target's
TotalContributionAllTargets(base_data, target, features) ==
    ContributionOver(base_data, DOMAIN base_data)

\* sum of base_data[target][feature]['contribution'] over the features
TotalContribution(base_data, target, features) ==
    RSum([i \in DOMAIN features |-> base_data[<<target, features[i]>>].contribution])

\* ScaleContribution with the post-pass left out
ScaleContributionNever(base_data, target, features, feature) ==
    base_data[<<target, feature>>].contribution

\* ScaleContribution without the test total_contribution > 100
ScaleContributionAlways(base_data, target, features, feature) ==
    RMul(base_data[<<target, feature>>].contribution,
         RDiv(RInt(100), TotalContribution(base_data, target, features)))

\* third loop: per target, scale every contribution by 100 / total when total > 100
ScaleContribution(base_data, target, features, feature) ==
    LET total_contribution == TotalContribution(base_data, target, features)
        contribution       == base_data[<<target, feature>>].contribution
    IN  IF RLess(RInt(100), total_contribution)
        THEN RMul(contribution, RDiv(RInt(100), total_contribution))
        ELSE contribution

\* UnifiedData with the simulation view built from the unadjusted base trend
UnifiedDataBaseTrend(base_data, targets, features) ==
    [metrics |->
        [feature \in Range(features) |->
            [target \in Range(targets) |->
                [roi          |-> base_data[<<target, feature>>].roi,
                 contribution |-> ScaleContribution(base_data, target, features, feature)]]],
     simulation |->
        [target \in Range(targets) |->
            [feature \in Range(features) |-> base_data[<<target, feature>>].base_trend]]]

\* UnifiedData with the 'metrics' view keyed by target first, as 'simulation' is
UnifiedDataTransposed(base_data, targets, features) ==
    [metrics |->
        [target \in Range(targets) |->
            [feature \in Range(features) |->
                [roi          |-> base_data[<<target, feature>>].roi,
                 contribution |-> ScaleContribution(base_data, target, features, feature)]]],
     simulation |->
        [target \in Range(targets) |->
            [feature \in Range(features) |-> base_data[<<target, feature>>].trend]]]

\* the returned unified_data: the 'metrics' and the 'simulation' views
UnifiedData(base_data, targets, features) ==
    [metrics |->
        [feature \in Range(features) |->
            [target \in Range(targets) |->
                [roi          |-> base_data[<<target, feature>>].roi,
                 contribution |-> ScaleContribution(base_data, target, features, feature)]]],
     simulation |->
        [target \in Range(targets) |->
            [feature \in Range(features) |-> base_data[<<target, feature>>].trend]]]

\* generate_unified_effect_data with the base session seeded from the same
\* string as the influence session (control variables included)
generate_with_one_seed(targets, features, delays, date_range_key, control_vars, salt, rng) ==
    Bind(InfluencePass(Pairs(targets, features), salt, date_range_key, control_vars,
                       rng, <<>>),
      LAMBDA first :
    Bind(BasePass(Pairs(targets, features), salt, delays,
                  date_range_key \o Join(Underscore, control_vars),
                  first.influence_factors, first.rng, <<>>),
      LAMBDA second :
        [unified_data      |-> UnifiedData(second.base_data, targets, features),
         influence_factors |-> first.influence_factors,
         base_data         |-> second.base_data,
         raised            |-> FALSE,
         rng               |-> second.rng]))

\* the whole call: the returned value, the local tables it was built from, and
\* the generator state the call leaves behind
generate_unified_effect_data(targets, features, delays, date_range_key, control_vars, salt, rng) ==
    Bind(InfluencePass(Pairs(targets, features), salt, date_range_key, control_vars,
                       rng, <<>>),
      LAMBDA first :
    Bind(BasePass(Pairs(targets, features), salt, delays, date_range_key,
                  first.influence_factors, first.rng, <<>>),
      LAMBDA second :
        [unified_data      |-> UnifiedData(second.base_data, targets, features),
         influence_factors |-> first.influence_factors,
         base_data         |-> second.base_data,
         raised            |-> FALSE,
         rng               |-> second.rng]))

(***************************************************************************)
(* The session.  The dataset is the default one (load_default_data): its   *)
(* non-date columns, in file order.  '抖音'=1 '微博'=2 'koc'=3 'kol'=4       *)
(* '销售额'=5 '转化率'=6 '新用户数'=7.                                        *)
(***************************************************************************)
columns ==
    << <<1, 0, 3>>, <<1, 0, 4>>, <<2, 0, 3>>, <<2, 0, 4>>, <<5>>, <<6>>, <<7>> >>

\* the elements of seq that are not in the set out, in order
RECURSIVE Without(_, _)
Without(seq, out) ==
    IF seq = <<>> THEN <<>>
    ELSE IF seq[1] \in out THEN Without(Tail(seq), out)
    ELSE <<seq[1]>> \o Without(Tail(seq), out)

feature_options == columns

control_options(features) == Without(columns, Range(features))

target_options(features, controls) ==
    Without(columns, Range(features) \cup Range(controls))

\* target_options[-2:] if len(target_options) >= 2 else target_options
default_targets(features, controls) ==
    LET opts == target_options(features, controls)
    IN  IF Len(opts) >= 2 THEN SubSeq(opts, Len(opts) - 1, Len(opts)) ELSE opts

delay_options == [i \in 1 .. DelayCap |-> i]

\* date_range_key: "default", or f"{start_date}_{end_date}" (a date d has code 10 + d)
DefaultKey == <<8>>

DateKey(start_date, end_date) == <<10 + start_date>> \o Underscore \o <<10 + end_date>>

(***************************************************************************)
(* What the user can have selected in the sidebar when a run starts.       *)
(***************************************************************************)
Min(a, b) == IF a <= b THEN a ELSE b

\* the sequences without repetition over the set S
Arrangements(S) ==
    {q \in UNION {[1 .. n -> S] : n \in 0 .. Cardinality(S)} :
        \A i, j \in DOMAIN q : i # j => q[i] # q[j]}

\* the members of the set D of numbers, ascending
RECURSIVE Ascending(_)
Ascending(D) ==
    IF D = {} THEN <<>>
    ELSE LET m == CHOOSE x \in D : \A y \in D : x <= y
         IN  <<m>> \o Ascending(D \ {m})

FeatureChoices ==
    {SubSeq(feature_options, 1, n) : n \in 0 .. Min(MaxFeatures, Len(feature_options))}

ControlChoices(features) ==
    LET opts == control_options(features)
    IN  Arrangements(Range(SubSeq(opts, 1, Min(MaxControls, Len(opts)))))

TargetChoices(features, controls) ==
    LET opts == target_options(features, controls)
    IN  {SubSeq(opts, Len(opts) - n + 1, Len(opts)) : n \in 0 .. Min(MaxTargets, Len(opts))}

DelayChoices == {Ascending(D) : D \in SUBSET Range(delay_options)}

DateRangeKeys == {DefaultKey, DateKey(1, 2)}

\* the salt of the process's string hash
HashSalts == {0, 1}

\* states the shared generator may be in when the first run starts
\* (load_default_data draws from it unseeded)
GeneratorStates == {0, 5003}

(***************************************************************************)
(* Datasets.  A dataset is known by where it came from and by the          *)
(* statistics prepare_simulation_data computes for its non-date columns.   *)
(* The default dataset is random, so its statistics vary between sessions. *)
(***************************************************************************)
None == "None"

\* the uploader widget holding no file; a call that returned None
NoFile == [name |-> None]

NoTable == [source |-> None]

\* a call that raised
Raised == [source |-> "raised"]

\* min, max, mean and 75% quantile of one column
ColumnStats(lo, mean, q75, hi) == [min |-> lo, mean |-> mean, q75 |-> q75, max |-> hi]

\* the statistics of two default datasets, by column
StatTables ==
    { ( <<1, 0, 3>> :> ColumnStats(RInt(1), RInt(3), RInt(4), RInt(5)) ) @@
      ( <<1, 0, 4>> :> ColumnStats(RInt(1), RInt(2), RInt(3), RInt(4)) ) @@
      ( <<2, 0, 3>> :> ColumnStats(RInt(1), RInt(2), RInt(2), RInt(3)) ) @@
      ( <<2, 0, 4>> :> ColumnStats(RInt(1), Rat(3, 2), RInt(2), RInt(2)) ) @@
      ( <<5>>       :> ColumnStats(RInt(5), RInt(12), RInt(16), RInt(20)) ) @@
      ( <<6>>       :> ColumnStats(Rat(1, 100), Rat(3, 100), Rat(4, 100), Rat(5, 100)) ) @@
      ( <<7>>       :> ColumnStats(RInt(1), RInt(2), Rat(5, 2), RInt(3)) ),
      ( <<1, 0, 3>> :> ColumnStats(RInt(2), RInt(5), RInt(6), RInt(8)) ) @@
      ( <<1, 0, 4>> :> ColumnStats(RInt(1), RInt(3), RInt(4), RInt(6)) ) @@
      ( <<2, 0, 3>> :> ColumnStats(RInt(1), RInt(3), RInt(4), RInt(5)) ) @@
      ( <<2, 0, 4>> :> ColumnStats(RInt(1), RInt(2), RInt(3), RInt(4)) ) @@
      ( <<5>>       :> ColumnStats(RInt(6), RInt(10), RInt(12), RInt(18)) ) @@
      ( <<6>>       :> ColumnStats(Rat(1, 100), Rat(2, 100), Rat(3, 100), Rat(5, 100)) ) @@
      ( <<7>>       :> ColumnStats(RInt(1), RInt(3), RInt(4), RInt(5)) ) }

\* what load_default_data can return
DefaultDatasets == {[source |-> "default", stats |-> s] : s \in StatTables}

DefaultData == CHOOSE d \in DefaultDatasets : d.stats[<<1, 0, 3>>].max = RInt(5)

(***************************************************************************)
(* State.                                                                  *)
(***************************************************************************)
VARIABLES
    hash_salt,          \* the process's hash salt
    np_state,           \* state of the shared numpy generator
    selected_features,  \* sidebar selections of the history page
    selected_controls,
    selected_targets,
    selected_delays,
    date_range_key,
    pc,                 \* position of the script run: "chart", "cards", "done"
    chart_call,         \* the invocation last made (or skipped) for the trend chart
    card_call,          \* the invocation last made (or skipped) for the metric cards
    current_data,       \* st.session_state.current_data
    current_file_name,  \* st.session_state.current_file_name
    uploaded_file,      \* the file held by the uploader widget, or None
    upload_run,         \* what the last run of the upload block did
    sim_config,         \* widget values of the simulator page
    sim_edits,          \* cells the user has edited in the simulator's data editor
    sim_view,           \* what the simulator page last rendered
    opt_config,         \* widget values of the optimizer page
    opt_view,           \* what the optimizer page last rendered
    current_page,       \* st.session_state.current_page, or None before the first run
    nav_log             \* the runs of the script so far: buttons pressed, pages drawn

history_vars == <<np_state, selected_features, selected_controls, selected_targets,
                  selected_delays, date_range_key, pc, chart_call, card_call>>

upload_vars == <<uploaded_file, upload_run>>

session_vars == <<current_data, current_file_name>>

simulator_vars == <<sim_config, sim_edits, sim_view>>

optimizer_vars == <<opt_config, opt_view>>

router_vars == <<current_page, nav_log>>

vars == <<hash_salt, history_vars, session_vars, upload_vars, simulator_vars,
          optimizer_vars, router_vars>>

\* the three page names: "历史投放效果分析", "未来投放效果模拟", "最佳投放组合推荐"
HistoryPage == "history"

SimulationPage == "simulation"

OptimizationPage == "optimization"

\* the session is on the page, and the runs that led there are not recorded
OnPage(page) ==
    /\ current_page = page
    /\ nav_log = <<>>

\* the session before any upload, on the default dataset
NoUpload ==
    /\ current_data = DefaultData
    /\ current_file_name = None
    /\ uploaded_file = NoFile
    /\ upload_run = [ran |-> FALSE]

\* the simulator page and the optimizer page have not been opened
SimulatorClosed ==
    /\ sim_config = [open |-> FALSE]
    /\ sim_edits = <<>>
    /\ sim_view = [shown |-> FALSE]

OptimizerClosed ==
    /\ opt_config = [open |-> FALSE]
    /\ opt_view = [shown |-> FALSE]

\* the other pages and the upload block are not part of a run of these containers
OtherPagesIdle ==
    UNCHANGED <<session_vars, upload_vars, simulator_vars, optimizer_vars, router_vars>>

selection == <<selected_features, selected_controls, selected_targets,
               selected_delays, date_range_key>>

NoCall == [made |-> FALSE]

\* the record of one invocation with the current selections
Invoke(rng) ==
    Bind(generate_unified_effect_data(selected_targets, selected_features,
             selected_delays, date_range_key, selected_controls, hash_salt, rng),
      LAMBDA r :
        [made              |-> TRUE,
         targets           |-> selected_targets,
         features          |-> selected_features,
         delays            |-> selected_delays,
         date_range_key    |-> date_range_key,
         control_vars      |-> selected_controls,
         unified_data      |-> r.unified_data,
         influence_factors |-> r.influence_factors,
         base_data         |-> r.base_data,
         raised            |-> r.raised,
         rng_before        |-> rng,
         rng               |-> r.rng])

\* the default dataset is never empty
filtered_data_empty == Len(columns) = 0

Init ==
    /\ hash_salt \in HashSalts
    /\ np_state \in GeneratorStates
    /\ selected_features \in FeatureChoices
    /\ selected_controls \in ControlChoices(selected_features)
    /\ selected_targets \in TargetChoices(selected_features, selected_controls)
    /\ selected_delays \in DelayChoices
    /\ date_range_key \in DateRangeKeys
    /\ pc = "chart"
    /\ chart_call = NoCall
    /\ card_call = NoCall
    /\ NoUpload
    /\ SimulatorClosed
    /\ OptimizerClosed
    /\ OnPage(HistoryPage)

\* the trend-chart container of show_history_analysis
RenderChart ==
    /\ pc = "chart"
    /\ IF /\ ~filtered_data_empty
          /\ selected_targets # <<>>
          /\ selected_features # <<>>
          /\ selected_delays # <<>>
       THEN /\ chart_call' = Invoke(np_state)
            /\ np_state' = chart_call'.rng
       ELSE /\ chart_call' = NoCall
            /\ np_state' = np_state
    /\ pc' = "cards"
    /\ UNCHANGED <<hash_salt, selection, card_call>>
    /\ OtherPagesIdle

\* the metric-card container of show_history_analysis
RenderCards ==
    /\ pc = "cards"
    /\ IF /\ ~filtered_data_empty
          /\ selected_targets # <<>>
          /\ selected_features # <<>>
       THEN /\ card_call' = Invoke(np_state)
            /\ np_state' = card_call'.rng
       ELSE /\ card_call' = NoCall
            /\ np_state' = np_state
    /\ pc' = "done"
    /\ UNCHANGED <<hash_salt, selection, chart_call>>
    /\ OtherPagesIdle

\* any interaction that leaves the filters alone: the script runs again, and
\* the page shows the previous run's output until each container is redrawn
Rerun ==
    /\ pc = "done"
    /\ pc' = "chart"
    /\ UNCHANGED <<hash_salt, np_state, selection, chart_call, card_call>>
    /\ OtherPagesIdle

Next == RenderChart \/ RenderCards \/ Rerun

Spec == Init /\ [][Next]_vars

(***************************************************************************)
(* Properties.                                                             *)
(***************************************************************************)
\* the invocations the page currently shows the output of
Calls == {c \in {chart_call, card_call} : c.made}

\* the call c made again, with the generator in state g and control variables cv
Again(c, cv, g) ==
    generate_unified_effect_data(c.targets, c.features, c.delays, c.date_range_key,
                                 cv, hash_salt, g)

SameInputs(c, d) ==
    /\ c.targets = d.targets
    /\ c.features = d.features
    /\ c.delays = d.delays
    /\ c.date_range_key = d.date_range_key
    /\ c.control_vars = d.control_vars

\* sum over the features of the contributions in the returned metrics
MetricsSum(c, target) ==
    RSum([i \in DOMAIN c.features |->
             c.unified_data.metrics[c.features[i]][target].contribution])

\* sum over the features of the contributions before the post-pass
AdjustedSum(c, target) ==
    RSum([i \in DOMAIN c.features |-> c.base_data[<<target, c.features[i]>>].contribution])

\* C1 (determinism): when a container is redrawn with the same inputs, the
\* new invocation returns the same 'metrics' and 'simulation' tables as the
\* invocation it replaces.
C1_Determinism ==
    [][ /\ (chart_call.made /\ chart_call'.made /\ SameInputs(chart_call, chart_call'))
            => chart_call'.unified_data = chart_call.unified_data
        /\ (card_call.made /\ card_call'.made /\ SameInputs(card_call, card_call'))
            => card_call'.unified_data = card_call.unified_data ]_vars

\* a later run has invoked the generator again for the chart
C1_Witness ==
    /\ pc = "cards"
    /\ chart_call.made
    /\ card_call.made
    /\ chart_call.rng_before = card_call.rng

\* C2 (no dependence on prior generator state or call order): every
\* invocation returns what the same call returns when it is the first use of
\* the generator, whatever state the generator starts in.
C2_CallOrderIndependence ==
    \A c \in Calls : \A g \in GeneratorStates :
        Again(c, c.control_vars, g).unified_data = c.unified_data

\* an invocation that started in a generator state left behind by another one
C2_Witness ==
    /\ pc = "done"
    /\ chart_call.made
    /\ card_call.made
    /\ card_call.rng_before = chart_call.rng
    /\ card_call.rng_before \notin GeneratorStates

\* C3 (contribution bound): in the returned metrics, the contributions of all
\* features to one target sum to at most 100.
C3_ContributionBound ==
    \A c \in Calls : \A target \in Range(c.targets) :
        RLeq(MetricsSum(c, target), RInt(100))

\* an invocation whose contributions summed to more than 100 before the post-pass
C3_Witness ==
    \E c \in Calls : \E target \in Range(c.targets) :
        /\ RLess(RInt(100), AdjustedSum(c, target))
        /\ MetricsSum(c, target) = RInt(100)

\* C4 (post-pass rule): when the adjusted contributions to a target sum to
\* more than 100, each is multiplied by the one factor 100 / sum and the new
\* sum is 100; otherwise each is base_contribution * influence_factor, unchanged.
C4_RescaleRule ==
    \A c \in Calls : \A target \in Range(c.targets) :
        IF RLess(RInt(100), AdjustedSum(c, target))
        THEN /\ \A feature \in Range(c.features) :
                    c.unified_data.metrics[feature][target].contribution
                      = RMul(c.base_data[<<target, feature>>].contribution,
                             RDiv(RInt(100), AdjustedSum(c, target)))
             /\ MetricsSum(c, target) = RInt(100)
        ELSE \A feature \in Range(c.features) :
                    c.unified_data.metrics[feature][target].contribution
                      = RMul(c.base_data[<<target, feature>>].base_contribution,
                             c.influence_factors[<<target, feature>>])

\* one invocation in which one target is rescaled and another is not
C4_Witness ==
    \E c \in Calls : \E t1, t2 \in Range(c.targets) :
        /\ RLess(RInt(100), AdjustedSum(c, t1))
        /\ RLess(AdjustedSum(c, t2), RInt(100))
        /\ \E feature \in Range(c.features) :
              c.unified_data.metrics[feature][t1].contribution
                # c.base_data[<<t1, feature>>].contribution

\* C5 (cross-view consistency): after a run that drew both containers, the
\* trend the chart shows and the roi the cards show for a pair are the same
\* base sample scaled by the same influence factor: the trend is base_trend *
\* influence_factor, the roi is base_roi * influence_factor and so lies within
\* [0.8, 1.2] times the mean of the charted trend, and the two invocations
\* returned the same tables.
C5_CrossViewConsistency ==
    (pc = "done" /\ chart_call.made /\ card_call.made) =>
        /\ chart_call.unified_data = card_call.unified_data
        /\ \A target \in Range(card_call.targets) : \A feature \in Range(card_call.features) :
            LET pair  == <<target, feature>>
                trend == chart_call.unified_data.simulation[target][feature]
                roi   == card_call.unified_data.metrics[feature][target].roi
            IN  /\ trend = [i \in DOMAIN card_call.base_data[pair].base_trend |->
                               RMul(card_call.base_data[pair].base_trend[i],
                                    card_call.influence_factors[pair])]
                /\ roi = RMul(card_call.base_data[pair].base_roi,
                              card_call.influence_factors[pair])
                /\ RLeq(RMul(Rat(4, 5), NpMean(trend)), roi)
                /\ RLeq(roi, RMul(Rat(6, 5), NpMean(trend)))

\* a run that drew both containers, with a pair whose influence factor is not 1
C5_Witness ==
    /\ pc = "done"
    /\ chart_call.made
    /\ card_call.made
    /\ \E target \in Range(card_call.targets) : \E feature \in Range(card_call.features) :
          /\ card_call.influence_factors[<<target, feature>>] # RInt(1)
          /\ chart_call.unified_data.simulation[target][feature]
               # card_call.base_data[<<target, feature>>].base_trend

\* the selections obtained from seq by removing one element
Removals(seq) == {Without(seq, {x}) : x \in Range(seq)} \ {<<>>}

\* the call c made again with other targets and features
AgainFor(c, targets, features) ==
    generate_unified_effect_data(targets, features, c.delays, c.date_range_key,
                                 c.control_vars, hash_salt, c.rng_before)

\* the selections that differ from c's by one feature or one target removed
Neighbours(c) ==
    {<<ts, c.features>> : ts \in Removals(c.targets)}
        \cup {<<c.targets, fs>> : fs \in Removals(c.features)}

\* C6 (control-variable order): the output is the same for every order in
\* which the same control variables are supplied.
C6_ControlOrderInvariance ==
    \A c \in Calls :
        \A cv \in {q \in Arrangements(Range(c.control_vars)) :
                      Len(q) = Len(c.control_vars)} :
            Again(c, cv, c.rng_before).unified_data = c.unified_data

\* C7 as claimed: roi, contribution and trend of a pair are the same when
\* another feature or another target is removed from the inputs.
C7_PairIndependence ==
    \A c \in Calls : \A n \in Neighbours(c) :
        LET d == AgainFor(c, n[1], n[2]).unified_data
        IN  \A target \in Range(n[1]) : \A feature \in Range(n[2]) :
              /\ d.metrics[feature][target] = c.unified_data.metrics[feature][target]
              /\ d.simulation[target][feature] = c.unified_data.simulation[target][feature]

\* C7 amended: roi and trend of a pair, and its contribution before the
\* post-pass, are the same when another feature or another target is removed;
\* the returned contribution is the same when a target is removed, and when a
\* feature is removed it is the same provided the target's adjusted
\* contributions sum to at most 100 with and without that feature.
C7_PairIndependenceAmended ==
    \A c \in Calls : \A n \in Neighbours(c) :
        LET d == AgainFor(c, n[1], n[2])
        IN  \A target \in Range(n[1]) : \A feature \in Range(n[2]) :
              /\ d.unified_data.metrics[feature][target].roi
                   = c.unified_data.metrics[feature][target].roi
              /\ d.unified_data.simulation[target][feature]
                   = c.unified_data.simulation[target][feature]
              /\ d.base_data[<<target, feature>>].contribution
                   = c.base_data[<<target, feature>>].contribution
              /\ (n[2] = c.features \/ RLeq(AdjustedSum(c, target), RInt(100)))
                   => d.unified_data.metrics[feature][target].contribution
                        = c.unified_data.metrics[feature][target].contribution

\* an invocation with two targets and several features, one target rescaled
C7_Witness ==
    \E c \in Calls :
        /\ Len(c.targets) = 2
        /\ Len(c.features) >= 2
        /\ \E target \in Range(c.targets) : RLess(RInt(100), AdjustedSum(c, target))
        /\ \E target \in Range(c.targets) : RLeq(AdjustedSum(c, target), RInt(100))

\* C8 (sensitivity): with other control variables and everything else equal,
\* base_trend, base_roi and base_contribution of every pair are the same, and
\* roi and every trend element are the unchanged base value times the new
\* influence factor (one common factor per pair).
C8_Sensitivity ==
    \A c \in Calls : \A cv \in ControlChoices(c.features) :
        LET d == Again(c, cv, c.rng_before)
        IN  \A pair \in DOMAIN c.base_data :
              /\ d.base_data[pair].base_trend = c.base_data[pair].base_trend
              /\ d.base_data[pair].base_roi = c.base_data[pair].base_roi
              /\ d.base_data[pair].base_contribution = c.base_data[pair].base_contribution
              /\ d.unified_data.metrics[pair[2]][pair[1]].roi
                   = RMul(c.base_data[pair].base_roi, d.influence_factors[pair])
              /\ d.unified_data.simulation[pair[1]][pair[2]]
                   = [i \in DOMAIN c.base_data[pair].base_trend |->
                         RMul(c.base_data[pair].base_trend[i], d.influence_factors[pair])]

\* an invocation for which other control variables give another influence
\* factor, hence another trend
C8_Witness ==
    \E c \in Calls : \E cv \in ControlChoices(c.features) :
        /\ c.delays # <<>>
        /\ cv # c.control_vars
        /\ \E pair \in DOMAIN c.base_data :
              /\ Again(c, cv, c.rng_before).influence_factors[pair] # c.influence_factors[pair]
              /\ Again(c, cv, c.rng_before).unified_data.simulation[pair[1]][pair[2]]
                   # c.unified_data.simulation[pair[1]][pair[2]]

\* C9 as claimed: an invocation with empty targets, features or delays fails
\* with InvalidInput and returns no tables.
C9_EmptyInputRaises ==
    \A c \in Calls :
        (c.targets = <<>> \/ c.features = <<>> \/ c.delays = <<>>) => c.raised

\* C10 as claimed: after a run in which no features, no targets or no delay
\* periods are selected, the generator was not invoked.
C10_NoComputationOnEmptySelection ==
    (/\ pc = "done"
     /\ (selected_features = <<>> \/ selected_targets = <<>> \/ selected_delays = <<>>))
        => (~chart_call.made /\ ~card_call.made)

\* closed interval test on the modelled floats
Within(lo, x, hi) == RLeq(lo, x) /\ RLeq(x, hi)

\* C11 (range bound): for every invocation with non-empty delays and every
\* pair, the influence factor lies in [0.85, 1.15], every base_trend element
\* lies in [0.5, 2.5], and base_contribution is (mean(base_trend) / 2.5) * 30
\* clamped to [5, 30], hence lies in [5, 30].
C11_RangeBound ==
    \A c \in Calls : c.delays # <<>> =>
        \A pair \in DOMAIN c.base_data :
            LET sample == c.base_data[pair]
                mapped == RMul(RDiv(NpMean(sample.base_trend), Rat(5, 2)), RInt(30))
            IN  /\ Within(Rat(85, 100), c.influence_factors[pair], Rat(115, 100))
                /\ \A i \in DOMAIN sample.base_trend :
                       Within(Rat(1, 2), sample.base_trend[i], Rat(5, 2))
                /\ Within(RInt(5), sample.base_contribution, RInt(30))
                /\ sample.base_contribution =
                       (IF RLess(mapped, RInt(5)) THEN RInt(5)
                        ELSE IF RLess(RInt(30), mapped) THEN RInt(30) ELSE mapped)

\* an invocation over two delays whose pairs got different influence factors
\* and whose base trend is not flat
C11_Witness ==
    \E c \in Calls :
        /\ Len(c.delays) = 2
        /\ \E p, q \in DOMAIN c.base_data :
              /\ c.influence_factors[p] # c.influence_factors[q]
              /\ c.base_data[p].base_trend[1] # c.base_data[p].base_trend[2]
              /\ RLess(RInt(5), c.base_data[p].base_contribution)

\* C12 (output shape): 'metrics' has one key per feature, each with one entry
\* per target holding roi and contribution; 'simulation' has one key per
\* target, each with one trend per feature, of length |delays|.
C12_OutputShape ==
    \A c \in Calls :
        /\ DOMAIN c.unified_data = {"metrics", "simulation"}
        /\ DOMAIN c.unified_data.metrics = Range(c.features)
        /\ \A feature \in Range(c.features) :
              /\ DOMAIN c.unified_data.metrics[feature] = Range(c.targets)
              /\ \A target \in Range(c.targets) :
                    DOMAIN c.unified_data.metrics[feature][target]
                        = {"roi", "contribution"}
        /\ DOMAIN c.unified_data.simulation = Range(c.targets)
        /\ \A target \in Range(c.targets) :
              /\ DOMAIN c.unified_data.simulation[target] = Range(c.features)
              /\ \A feature \in Range(c.features) :
                    DOMAIN c.unified_data.simulation[target][feature]
                        = 1 .. Len(c.delays)

\* one target, two features: two feature keys, each with one target key
C12_Witness ==
    \E c \in Calls :
        /\ Len(c.targets) = 1
        /\ Len(c.features) = 2
        /\ Len(c.delays) = 2
        /\ Cardinality(DOMAIN c.unified_data.metrics) = 2
        /\ \A feature \in DOMAIN c.unified_data.metrics :
              Cardinality(DOMAIN c.unified_data.metrics[feature]) = 1

\* the generator state k draws after state x
RECURSIVE NpAdvanceN(_, _)
NpAdvanceN(x, k) == IF k = 0 THEN x ELSE NpAdvanceN(NpAdvance(x), k - 1)

\* the value k / DrawLevels drawn in generator state x
DrawnIn(x) == Rat(NpLevel(x), DrawLevels)

\* C16 (two seeded sessions per pair): for every pair of an invocation, the
\* influence factor is the first draw after seeding with the influence seed;
\* the i-th trend value is the i-th draw after seeding with the base seed and
\* the ROI multiplier is draw |delays| + 1 of that same stream; the call
\* leaves the generator |delays| + 1 draws after the last pair's base seed.
C16_SeededSessions ==
    \A c \in Calls :
        LET n     == Len(c.delays)
            pairs == Pairs(c.targets, c.features)
            base(pair) == np_random_seed(
                BaseSeed(hash_salt, pair[2], pair[1], c.date_range_key))
        IN  /\ \A pair \in DOMAIN c.base_data :
                 /\ c.influence_factors[pair] =
                      RAdd(Rat(85, 100),
                           RMul(DrawnIn(np_random_seed(
                                    InfluenceSeed(hash_salt, pair[2], pair[1],
                                                  c.date_range_key, c.control_vars))),
                                Rat(3, 10)))
                 /\ Len(c.base_data[pair].base_trend) = n
                 /\ \A i \in 1 .. n :
                      c.base_data[pair].base_trend[i] =
                          RAdd(Rat(1, 2), RMul(RInt(2), DrawnIn(NpAdvanceN(base(pair), i - 1))))
                 /\ c.base_data[pair].base_roi =
                      RMul(NpMean(c.base_data[pair].base_trend),
                           RAdd(Rat(4, 5),
                                RMul(Rat(2, 5), DrawnIn(NpAdvanceN(base(pair), n)))))
            /\ c.rng = NpAdvanceN(base(pairs[Len(pairs)]), n + 1)

\* an invocation over two delays and several pairs, entered in a generator
\* state that is none of the states its own sessions start from
C16_Witness ==
    \E c \in Calls :
        /\ Len(c.delays) = 2
        /\ Len(c.targets) * Len(c.features) >= 2
        /\ \A pair \in DOMAIN c.base_data :
              /\ c.rng_before # np_random_seed(
                    BaseSeed(hash_salt, pair[2], pair[1], c.date_range_key))
              /\ c.base_data[pair].base_trend[1] # c.base_data[pair].base_trend[2]

(***************************************************************************)
(* File upload (process_uploaded_file and the upload block of the history  *)
(* page).  An uploaded file is known by its name, the encoding its bytes   *)
(* were written in, whether it is well-formed (read_csv / read_excel can   *)
(* tokenise it), whether the other multi-byte decoders happen to accept    *)
(* its bytes, whether its header names a date column (in Chinese, '日期',   *)
(* or in ASCII, 'date') and whether that column's values are dates.        *)
(***************************************************************************)
encodings == <<"utf-8", "gbk", "gb2312", "latin1">>

FileNames == {"a.csv", "b.csv", "c.xlsx"}

\* uploaded_file.name.endswith('.csv')
IsCsv(name) == name \in {"a.csv", "b.csv"}

\* uploaded_file.name.endswith('.xlsx')
IsXlsx(name) == name = "c.xlsx"

UploadedFiles ==
    {f \in [name       : FileNames,
            written_in : {"ascii", "utf-8", "gbk"},
            well_formed : BOOLEAN,
            lenient    : BOOLEAN,
            date_col   : {"none", "cn", "ascii"},
            dates_ok   : BOOLEAN] :
        /\ (f.date_col = "cn" => f.written_in # "ascii")
        /\ (f.date_col = "none" => f.dates_ok)
        /\ (f.written_in = "ascii" => ~f.lenient)
        /\ (IsXlsx(f.name) => f.written_in = "utf-8" /\ ~f.lenient)}

\* the bytes of the file decode under the encoding
Decodes(file, encoding) ==
    \/ encoding = "latin1"
    \/ file.written_in = "ascii"
    \/ file.written_in = "utf-8" /\ (encoding = "utf-8" \/ file.lenient)
    \/ file.written_in = "gbk" /\ (encoding = "gbk" \/ (encoding = "gb2312" /\ file.lenient))

\* the header read under the encoding shows a column with '日期' or 'date' in it
DateColumnFound(file, encoding) ==
    \/ file.date_col = "ascii"
    \/ /\ file.date_col = "cn"
       /\ \/ file.written_in = "utf-8" /\ encoding = "utf-8"
          \/ file.written_in = "gbk" /\ encoding \in {"gbk", "gb2312"}

\* one pass of the loop body: read_csv, then the date conversion; a table or
\* "raised"
TryEncoding(file, encoding) ==
    IF ~(file.well_formed /\ Decodes(file, encoding)) THEN Raised
    ELSE IF DateColumnFound(file, encoding) /\ ~file.dates_ok THEN Raised
    ELSE [source           |-> file.name,
          encoding         |-> encoding,
          dates_normalised |-> DateColumnFound(file, encoding)]

\* pd.read_csv(uploaded_file, encoding='utf-8', errors='ignore'): read_csv
\* has no parameter named errors, so the call raises TypeError
PermissiveRead(file) == Raised

\* the loop over the encodings from position i on, then the fallback
RECURSIVE TryEncodingsFrom(_, _)
TryEncodingsFrom(file, i) ==
    IF i > Len(encodings) THEN PermissiveRead(file)
    ELSE IF TryEncoding(file, encodings[i]) # Raised THEN TryEncoding(file, encodings[i])
    ELSE TryEncodingsFrom(file, i + 1)

\* pd.read_excel and the date conversion
ReadExcel(file) ==
    IF ~file.well_formed \/ (file.date_col # "none" /\ ~file.dates_ok) THEN Raised
    ELSE [source |-> file.name, encoding |-> "xlsx",
          dates_normalised |-> file.date_col # "none"]

\* process_uploaded_file: a table, or None (the outer except, or no branch taken)
process_uploaded_file(file) ==
    LET result == IF IsCsv(file.name) THEN TryEncodingsFrom(file, 1)
                  ELSE IF IsXlsx(file.name) THEN ReadExcel(file)
                  ELSE NoTable
    IN  IF result = Raised THEN NoTable ELSE result

\* the user puts a file into the uploader, or takes it out
PickFile ==
    /\ \E f \in UploadedFiles \cup {NoFile} :
          /\ f # uploaded_file
          /\ uploaded_file' = f
    /\ upload_run' = [ran |-> FALSE]
    /\ UNCHANGED <<hash_salt, history_vars, session_vars, simulator_vars, optimizer_vars,
                   router_vars>>

\* the upload block with the file name stored before the result of the parse
\* is looked at
UploadBlockNameBeforeParse ==
    /\ ~upload_run.ran
    /\ IF uploaded_file # NoFile
       THEN IF uploaded_file.name # current_file_name
            THEN LET processed_data == process_uploaded_file(uploaded_file)
                 IN  /\ current_file_name' = uploaded_file.name
                     /\ current_data' = IF processed_data # NoTable
                                        THEN processed_data ELSE current_data
                     /\ upload_run' = [ran |-> TRUE, processed |-> TRUE,
                                       processed_data |-> processed_data,
                                       data_before |-> current_data,
                                       name_before |-> current_file_name,
                                       message |-> IF processed_data # NoTable
                                                   THEN "success" ELSE None]
            ELSE /\ UNCHANGED session_vars
                 /\ upload_run' = [ran |-> TRUE, processed |-> FALSE, message |-> None]
       ELSE /\ UNCHANGED session_vars
            /\ upload_run' = [ran |-> TRUE, processed |-> FALSE,
                              message |-> IF current_file_name = None
                                          THEN "info_default" ELSE "info_current"]
    /\ UNCHANGED <<hash_salt, history_vars, uploaded_file, simulator_vars, optimizer_vars,
                   router_vars>>

\* the upload block of show_history_analysis, run once
UploadBlock ==
    /\ ~upload_run.ran
    /\ IF uploaded_file # NoFile
       THEN IF uploaded_file.name # current_file_name
            THEN LET processed_data == process_uploaded_file(uploaded_file)
                 IN  IF processed_data # NoTable
                     THEN /\ current_data' = processed_data
                          /\ current_file_name' = uploaded_file.name
                          /\ upload_run' = [ran |-> TRUE, processed |-> TRUE,
                                            processed_data |-> processed_data,
                                            data_before |-> current_data,
                                            name_before |-> current_file_name,
                                            message |-> "success"]
                     ELSE /\ UNCHANGED session_vars
                          /\ upload_run' = [ran |-> TRUE, processed |-> TRUE,
                                            processed_data |-> NoTable,
                                            data_before |-> current_data,
                                            name_before |-> current_file_name,
                                            message |-> None]
            ELSE /\ UNCHANGED session_vars
                 /\ upload_run' = [ran |-> TRUE, processed |-> FALSE, message |-> None]
       ELSE /\ UNCHANGED session_vars
            /\ upload_run' = [ran |-> TRUE, processed |-> FALSE,
                              message |-> IF current_file_name = None
                                          THEN "info_default" ELSE "info_current"]
    /\ UNCHANGED <<hash_salt, history_vars, uploaded_file, simulator_vars, optimizer_vars,
                   router_vars>>

\* the history page is not being redrawn in this part of the model
HistoryIdle ==
    /\ hash_salt = 0
    /\ np_state = 0
    /\ selected_features = <<>>
    /\ selected_controls = <<>>
    /\ selected_targets = <<>>
    /\ selected_delays = <<>>
    /\ date_range_key = DefaultKey
    /\ pc = "done"
    /\ chart_call = NoCall
    /\ card_call = NoCall

UploadInit ==
    HistoryIdle /\ NoUpload /\ SimulatorClosed /\ OptimizerClosed /\ OnPage(HistoryPage)

UploadNext == PickFile \/ UploadBlock

UploadSpec == UploadInit /\ [][UploadNext]_vars

\* the last run of the upload block called process_uploaded_file and got None
UploadFailed ==
    /\ upload_run.ran
    /\ upload_run.processed
    /\ upload_run.processed_data = NoTable

\* C13 as claimed: when parsing of the uploaded file fails, current_data and
\* current_file_name keep their values and the user is shown a
\* could-not-load message.
C13_FailedUploadKeepsDataAndReports ==
    UploadFailed =>
        /\ current_data = upload_run.data_before
        /\ current_file_name = upload_run.name_before
        /\ upload_run.message = "could_not_load"

\* the positions of the encodings under which the file is read without error
ParsingEncodings(file) ==
    {i \in DOMAIN encodings : TryEncoding(file, encodings[i]) # Raised}

\* C14 as claimed: for a .csv file the parser returns the table read under
\* the first of utf-8, gbk, gb2312, latin1 that parses, and when none of them
\* parses the permissive fallback returns a table, not a failure.
C14_EncodingOrderAndFallback ==
    (/\ upload_run.ran
     /\ upload_run.processed
     /\ IsCsv(uploaded_file.name))
        => LET parsing == ParsingEncodings(uploaded_file)
           IN  IF parsing # {}
               THEN upload_run.processed_data =
                      TryEncoding(uploaded_file,
                          encodings[CHOOSE i \in parsing : \A j \in parsing : i <= j])
               ELSE upload_run.processed_data # NoTable

(***************************************************************************)
(* Python's random module, used by the simulator and the optimizer pages:  *)
(* a generator of its own, apart from numpy's.  Same shape of model: the   *)
(* state is one number, a draw is a level k / DrawLevels of [0, 1).        *)
(***************************************************************************)
random_seed(s) == (s * 6007 + 101) % 10009

RandomAdvance(x) == (x * 1237 + 3571) % 10009

RandomLevel(x) == (RandomAdvance(x) * DrawLevels) \div 10009

\* x - y for x >= y
RSub(x, y) ==
    IF IsNaN(x) \/ IsNaN(y) THEN NaN
    ELSE Rat(x.num * y.den - y.num * x.den, x.den * y.den)

\* random.uniform(a, b): a + (b - a) * random(); value and next state
random_uniform(x, a, b) ==
    Bind(x, LAMBDA state :
        [value |-> RAdd(a, RMul(RSub(b, a), Rat(RandomLevel(state), DrawLevels))),
         rng   |-> RandomAdvance(state)])

\* one random.uniform(lows[c], highs[c]) per column c of cols, in order,
\* each stored in the row under its column
RECURSIVE DrawEach(_, _, _, _, _)
DrawEach(cols, lows, highs, rng, row) ==
    IF cols = <<>> THEN [row |-> row, rng |-> rng]
    ELSE Bind(random_uniform(rng, lows[cols[1]], highs[cols[1]]),
           LAMBDA d :
             DrawEach(Tail(cols), lows, highs, d.rng, (cols[1] :> d.value) @@ row))

\* the default dataset's column names in the order sorted() puts them
\* (by code point: 微 < 抖 < 新 < 转 < 销)
sorted_columns ==
    << <<2, 0, 3>>, <<2, 0, 4>>, <<1, 0, 3>>, <<1, 0, 4>>, <<7>>, <<6>>, <<5>> >>

sorted(cols) == Without(sorted_columns, Range(sorted_columns) \ Range(cols))

\* str() of a number, as character codes
FloatCode(x) == <<40 + x.num, 40 + x.den>>

\* str() of a list of column names
RECURSIVE ListStr(_)
ListStr(cols) ==
    IF cols = <<>> THEN <<9>> ELSE cols[1] \o <<9>> \o ListStr(Tail(cols))

\* available_columns of prepare_simulation_data: the non-date columns
available_columns == columns

(***************************************************************************)
(* The simulator page (show_future_simulation).  config is the closure's   *)
(* environment: the sidebar's and the sliders' values.                     *)
(***************************************************************************)
n_rows == 5

\* str(cost_ranges): the dict in insertion order, which is selected_features' order
RECURSIVE CostRangesStr(_, _)
CostRangesStr(features, cost_ranges) ==
    IF features = <<>> THEN <<9>>
    ELSE features[1] \o FloatCode(cost_ranges[features[1]][1])
                     \o FloatCode(cost_ranges[features[1]][2])
                     \o CostRangesStr(Tail(features), cost_ranges)

\* the seed with the selected targets made part of config_key
SimulationSeedWithTargets(salt, config) ==
    hash(salt, <<config.granularity>> \o Underscore \o <<30 + config.selected_harvest>>
               \o Underscore \o ListStr(sorted(config.selected_features))
               \o Underscore \o CostRangesStr(config.selected_features, config.cost_ranges)
               \o ListStr(config.selected_targets))
        % SeedModulus

\* hash(config_key) % 10000
SimulationSeed(salt, config) ==
    hash(salt, <<config.granularity>> \o Underscore \o <<30 + config.selected_harvest>>
               \o Underscore \o ListStr(sorted(config.selected_features))
               \o Underscore \o CostRangesStr(config.selected_features, config.cost_ranges))
        % SeedModulus

\* one row: every available column drawn from [0, max], then every selected
\* feature drawn again from its cost range
SimulationRow(features, cost_ranges, stats, rng) ==
    Bind(DrawEach(available_columns,
                  [c \in Range(available_columns) |-> RInt(0)],
                  [c \in Range(available_columns) |-> stats[c].max], rng, <<>>),
      LAMBDA all :
        DrawEach(features,
                 [f \in Range(features) |-> cost_ranges[f][1]],
                 [f \in Range(features) |-> cost_ranges[f][2]],
                 all.rng, all.row))

RECURSIVE SimulationRows(_, _, _, _, _, _)
SimulationRows(n, features, cost_ranges, stats, rng, acc) ==
    IF n = 0 THEN acc
    ELSE Bind(SimulationRow(features, cost_ranges, stats, rng),
           LAMBDA r :
             SimulationRows(n - 1, features, cost_ranges, stats, r.rng,
                            Append(acc, r.row)))

\* generate_simulation_table: the rows of simulation_df
generate_simulation_table(features, cost_ranges, stats, rows, config, salt) ==
    SimulationRows(rows, features, cost_ranges, stats,
                   random_seed(SimulationSeed(salt, config)), <<>>)

\* display_df[selected_targets].mean(axis=1) of one row
TargetsMean(row, targets) == NpMean([i \in DOMAIN targets |-> row[targets[i]]])

\* row put into rows (ordered by targets_mean, largest first) behind the rows
\* whose mean is not smaller
RECURSIVE InsertByMean(_, _, _)
InsertByMean(rows, row, targets) ==
    IF rows = <<>> THEN <<row>>
    ELSE IF RLess(TargetsMean(rows[1], targets), TargetsMean(row, targets))
         THEN <<row>> \o rows
         ELSE <<rows[1]>> \o InsertByMean(Tail(rows), row, targets)

\* sort_values(by='targets_mean', ascending=False); rows of equal mean keep
\* their order
RECURSIVE sort_values(_, _, _)
sort_values(rows, targets, acc) ==
    IF rows = <<>> THEN acc
    ELSE sort_values(Tail(rows), targets, InsertByMean(acc, rows[1], targets))

\* simulation_df[display_columns], then the sort
DisplayRows(simulation_df, targets, features) ==
    sort_values([i \in DOMAIN simulation_df |->
                    [c \in Range(targets) \cup Range(features) |-> simulation_df[i][c]]],
                targets, <<>>)

\* sum(row[feature] for feature in selected_features)
RowCost(row, features) == RSum([i \in DOMAIN features |-> row[features[i]]])

\* max(row_costs)
RECURSIVE MaxRowCost(_, _)
MaxRowCost(rows, features) ==
    IF Len(rows) = 1 THEN RowCost(rows[1], features)
    ELSE PyMax(RowCost(rows[1], features), MaxRowCost(Tail(rows), features))

\* the budget message with the comparison max_row_cost >= max_budget
BudgetMessageAtLeast(rows, features, max_budget) ==
    IF ~RLess(MaxRowCost(rows, features), max_budget) THEN "over" ELSE "within"

\* st.error when max_row_cost > max_budget, st.success otherwise
BudgetMessage(rows, features, max_budget) ==
    IF RLess(max_budget, MaxRowCost(rows, features)) THEN "over" ELSE "within"

\* what st.data_editor returns: display_df with the user's edited cells
DataEditor(display_df, edits) ==
    [i \in DOMAIN display_df |->
        [c \in DOMAIN display_df[i] |->
            IF <<i, c>> \in DOMAIN edits THEN edits[<<i, c>>] ELSE display_df[i][c]]]

\* the gauges read display_df[target].iloc[-1], the last row
GaugesFromLastRow(display_df, targets) ==
    [t \in Range(targets) |-> display_df[Len(display_df)][t]]

\* current_value = display_df[target].iloc[0] for every selected target
Gauges(display_df, targets) == [t \in Range(targets) |-> display_df[1][t]]

\* one run of show_future_simulation: what the page shows
RenderSimulation(config, edits, stats, salt) ==
    IF config.selected_features = <<>> \/ config.selected_targets = <<>>
    THEN [shown |-> TRUE, warning |-> TRUE]
    ELSE
    Bind(generate_simulation_table(config.selected_features, config.cost_ranges, stats,
                                   n_rows, config, salt),
      LAMBDA simulation_df :
    Bind(DisplayRows(simulation_df, config.selected_targets, config.selected_features),
      LAMBDA display_df :
    Bind(DataEditor(display_df, edits),
      LAMBDA edited_df :
        [shown          |-> TRUE,
         warning        |-> FALSE,
         simulation_df  |-> simulation_df,
         display_df     |-> display_df,
         gauges         |-> Gauges(display_df, config.selected_targets),
         budget_message |-> BudgetMessage(display_df, config.selected_features,
                                          config.max_budget),
         table          |-> edited_df,
         edited_message |-> IF edited_df # display_df
                            THEN BudgetMessage(edited_df, config.selected_features,
                                               config.max_budget)
                            ELSE None])))

(***************************************************************************)
(* What the user can have set on the simulator page when a run starts.     *)
(***************************************************************************)
MaxCarriers == 2

MaxEdits == 1

\* '日' and '周' as character codes
Granularities == {21, 22}

\* the default harvest period (index 2 of the options) and one other
HarvestChoices == {1, 3}

\* the targets: any arrangement of the last two columns
SimTargetChoices ==
    Arrangements(Range(SubSeq(available_columns, Len(available_columns) - 1,
                              Len(available_columns))))

\* available_features: the columns that are not targets
available_features(targets) == Without(available_columns, Range(targets))

CarrierChoices(targets) ==
    {SubSeq(available_features(targets), 1, n) :
        n \in 0 .. Min(MaxCarriers, Len(available_features(targets)))}

\* the slider of a feature: left at its default (0, mean), or moved to (mean, max)
CostRangeChoices(features, stats) ==
    {[f \in Range(features) |->
         IF moved[f] THEN <<stats[f].mean, stats[f].max>> ELSE <<RInt(0), stats[f].mean>>] :
     moved \in [Range(features) -> BOOLEAN]}

\* sum of the selected features' means, the default of the budget input
reference_budget(features, stats) ==
    RSum([i \in DOMAIN features |-> stats[features[i]].mean])

BudgetChoices(features, stats) == {RInt(0), reference_budget(features, stats), RInt(100)}

SimConfigs(stats) ==
    UNION UNION {
        { [open             : {TRUE},
           granularity      : Granularities,
           selected_targets : {targets},
           selected_harvest : HarvestChoices,
           selected_features : {features},
           cost_ranges      : CostRangeChoices(features, stats),
           max_budget       : BudgetChoices(features, stats)]
          : features \in CarrierChoices(targets) }
        : targets \in SimTargetChoices }

\* the values the user types into a cell
EditValues == {RInt(0), RInt(100)}

SimulatorInit ==
    /\ hash_salt \in HashSalts
    /\ np_state = 0
    /\ selected_features = <<>>
    /\ selected_controls = <<>>
    /\ selected_targets = <<>>
    /\ selected_delays = <<>>
    /\ date_range_key = DefaultKey
    /\ pc = "done"
    /\ chart_call = NoCall
    /\ card_call = NoCall
    /\ current_data \in DefaultDatasets
    /\ current_file_name = None
    /\ uploaded_file = NoFile
    /\ upload_run = [ran |-> FALSE]
    /\ sim_config \in SimConfigs(current_data.stats)
    /\ sim_edits = <<>>
    /\ sim_view = [shown |-> FALSE]
    /\ OptimizerClosed
    /\ OnPage(SimulationPage)

\* the script runs show_future_simulation
RenderSimulator ==
    /\ ~sim_view.shown
    /\ sim_view' = RenderSimulation(sim_config, sim_edits, current_data.stats, hash_salt)
    /\ UNCHANGED <<hash_salt, history_vars, session_vars, upload_vars, sim_config,
                   sim_edits, optimizer_vars, router_vars>>

\* the user edits a cell of the first or the last row in the data editor, and
\* the script runs again
EditCell ==
    /\ sim_view.shown
    /\ ~sim_view.warning
    /\ Cardinality(DOMAIN sim_edits) < MaxEdits
    /\ \E i \in {1, n_rows} :
       \E c \in Range(sim_config.selected_targets) \cup Range(sim_config.selected_features) :
       \E v \in EditValues :
          /\ sim_edits' = (<<i, c>> :> v) @@ sim_edits
          /\ sim_view' = RenderSimulation(sim_config, sim_edits', current_data.stats,
                                          hash_salt)
    /\ UNCHANGED <<hash_salt, history_vars, session_vars, upload_vars, sim_config,
                   optimizer_vars, router_vars>>

SimulatorNext == RenderSimulator \/ EditCell

SimulatorSpec == SimulatorInit /\ [][SimulatorNext]_vars

\* the simulator page has drawn its gauges and its table
TableShown == sim_view.shown /\ ~sim_view.warning

\* some row's spend on the selected features exceeds the budget
SomeRowOver(rows) ==
    \E i \in DOMAIN rows :
        RLess(sim_config.max_budget, RowCost(rows[i], sim_config.selected_features))

\* C15 (budget check is non-blocking): the over-budget message is shown
\* exactly when some row's spend on the selected features exceeds max_budget,
\* the within-budget message otherwise; the table is displayed, all rows, in
\* both cases; and the same rule gives a second message for the edited table
\* exactly when it differs from the generated one.
C15_BudgetMessageNonBlocking ==
    TableShown =>
        /\ sim_view.budget_message =
              (IF SomeRowOver(sim_view.display_df) THEN "over" ELSE "within")
        /\ Len(sim_view.table) = n_rows
        /\ sim_view.table = DataEditor(sim_view.display_df, sim_edits)
        /\ sim_view.edited_message =
              (IF sim_view.table = sim_view.display_df THEN None
               ELSE IF SomeRowOver(sim_view.table) THEN "over" ELSE "within")

\* the generated table is within budget, the edited one is over it, and both
\* messages are shown with the table
C15_Witness ==
    /\ TableShown
    /\ sim_view.budget_message = "within"
    /\ sim_view.edited_message = "over"
    /\ Len(sim_view.table) = n_rows

\* the rows of a, each restricted to the columns of b's rows, are the rows of b
SameRowsReordered(a, b) ==
    /\ Len(a) = Len(b)
    /\ \A i \in DOMAIN b : \E j \in DOMAIN a :
          b[i] = [c \in DOMAIN b[i] |-> a[j][c]]
    /\ \A j \in DOMAIN a : \E i \in DOMAIN b :
          b[i] = [c \in DOMAIN b[i] |-> a[j][c]]

\* C19 (the generated table does not depend on the targets): with the
\* dataset, granularity, harvest period, features and cost ranges fixed,
\* generate_simulation_table returns the same rows for every selection of
\* targets; the displayed rows are the generated rows, restricted to the
\* displayed columns and reordered.
C19_TableIndependentOfTargets ==
    TableShown =>
        /\ \A targets \in SimTargetChoices :
              Range(targets) \cap Range(sim_config.selected_features) = {} =>
                 generate_simulation_table(sim_config.selected_features,
                     sim_config.cost_ranges, current_data.stats, n_rows,
                     [sim_config EXCEPT !.selected_targets = targets], hash_salt)
                   = sim_view.simulation_df
        /\ SameRowsReordered(sim_view.simulation_df, sim_view.display_df)

\* two targets are selected and the sort has moved the first generated row
C19_Witness ==
    /\ TableShown
    /\ Len(sim_config.selected_targets) = 2
    /\ Len(sim_view.simulation_df) = n_rows
    /\ \E c \in DOMAIN sim_view.display_df[1] :
          sim_view.display_df[1][c] # sim_view.simulation_df[1][c]

\* rows in the order of their targets mean, largest first
OrderedByTargetsMean(rows) ==
    \A i, j \in DOMAIN rows :
        i < j => ~RLess(TargetsMean(rows[i], sim_config.selected_targets),
                        TargetsMean(rows[j], sim_config.selected_targets))

OptimizationSeed(salt, targets, features, harvest_period) ==
    hash(salt, ListStr(sorted(targets)) \o ListStr(sorted(features))
               \o <<30 + harvest_period>>)
        % SeedModulus

\* the scale factor with max in the place of min
ScaleFactorAtLeastOne(global_limit, current_total, u) ==
    PyMax(RInt(1), RMul(RDiv(global_limit, current_total), u))

\* min(1.0, global_limit / current_total * random.uniform(0.8, 1.0))
ScaleFactor(global_limit, current_total, u) ==
    PyMin(RInt(1), RMul(RDiv(global_limit, current_total), u))

\* the costs scaled when their total is positive; one more draw is made then
ScaledCosts(features, costs, current_total, global_limit, rng) ==
    IF RLess(RInt(0), current_total)
    THEN Bind(random_uniform(rng, Rat(4, 5), RInt(1)),
           LAMBDA u :
         Bind(ScaleFactor(global_limit, current_total, u.value),
           LAMBDA scale_factor :
             [row |-> [f \in Range(features) |-> RMul(costs[f], scale_factor)],
              rng |-> u.rng]))
    ELSE [row |-> costs, rng |-> rng]

\* the predicted targets drawn from [0, max], as the simulator draws its columns
PredictionRangeFromZero(stats, target) == <<RInt(0), stats[target].max>>

\* random.uniform(target_q75, target_max)
PredictionRange(stats, target) == <<stats[target].q75, stats[target].max>>

\* one row of the table: the costs, their total before and after scaling,
\* and the predicted target values
OptimizationRow(targets, features, stats, global_limit, rng) ==
    Bind(DrawEach(features, [f \in Range(features) |-> RInt(0)],
                  [f \in Range(features) |-> stats[f].max], rng, <<>>),
      LAMBDA drawn :
    Bind(RowCost(drawn.row, features),
      LAMBDA current_total :
    Bind(ScaledCosts(features, drawn.row, current_total, global_limit, drawn.rng),
      LAMBDA platform_costs :
    Bind(DrawEach(targets,
                  [t \in Range(targets) |-> PredictionRange(stats, t)[1]],
                  [t \in Range(targets) |-> PredictionRange(stats, t)[2]],
                  platform_costs.rng, <<>>),
      LAMBDA predicted :
        [row |-> [platform_costs |-> platform_costs.row,
                  current_total  |-> current_total,
                  actual_total   |-> RowCost(platform_costs.row, features),
                  predicted      |-> predicted.row],
         rng |-> predicted.rng]))))

RECURSIVE OptimizationRows(_, _, _, _, _, _, _)
OptimizationRows(n, targets, features, stats, global_limit, rng, acc) ==
    IF n = 0 THEN acc
    ELSE Bind(OptimizationRow(targets, features, stats, global_limit, rng),
           LAMBDA r :
             OptimizationRows(n - 1, targets, features, stats, global_limit, r.rng,
                              Append(acc, r.row)))

\* generate_optimization_table: the rows of optimization_df
generate_optimization_table(targets, features, stats, harvest_period, global_limit, salt) ==
    OptimizationRows(harvest_period, targets, features, stats, global_limit,
        random_seed(OptimizationSeed(salt, targets, features, harvest_period)), <<>>)

\* optimization_df[f'{target}_预计'].mean() for every selected target
KpiGauges(optimization_df, targets) ==
    [t \in Range(targets) |->
        NpMean([i \in DOMAIN optimization_df |-> optimization_df[i].predicted[t]])]

\* one run of show_optimization_recommendation: what the page shows
RenderOptimization(config, stats, salt) ==
    IF config.selected_features = <<>> \/ config.selected_targets = <<>>
    THEN [shown |-> TRUE, warning |-> TRUE]
    ELSE Bind(generate_optimization_table(config.selected_targets,
                  config.selected_features, stats, config.selected_harvest,
                  config.global_limit, salt),
           LAMBDA optimization_df :
             [shown           |-> TRUE,
              warning         |-> FALSE,
              optimization_df |-> optimization_df,
              kpi             |-> KpiGauges(optimization_df, config.selected_targets)])

(***************************************************************************)
(* What the user can have set on the optimizer page when a run starts.     *)
(***************************************************************************)
MaxHarvest == 3

\* sum of the selected features' means times 1.2, the default of the limit input
reference_total(features, stats) ==
    RMul(RSum([i \in DOMAIN features |-> stats[features[i]].mean]), Rat(6, 5))

LimitChoices(features, stats) ==
    {RInt(0), RInt(1), reference_total(features, stats), RInt(100)}

OptConfigs(stats) ==
    UNION UNION {
        { [open              : {TRUE},
           selected_targets  : {targets},
           selected_harvest  : 1 .. MaxHarvest,
           selected_features : {features},
           global_limit      : LimitChoices(features, stats)]
          : features \in CarrierChoices(targets) }
        : targets \in SimTargetChoices }

OptimizerInit ==
    /\ hash_salt \in HashSalts
    /\ np_state = 0
    /\ selected_features = <<>>
    /\ selected_controls = <<>>
    /\ selected_targets = <<>>
    /\ selected_delays = <<>>
    /\ date_range_key = DefaultKey
    /\ pc = "done"
    /\ chart_call = NoCall
    /\ card_call = NoCall
    /\ current_data \in DefaultDatasets
    /\ current_file_name = None
    /\ uploaded_file = NoFile
    /\ upload_run = [ran |-> FALSE]
    /\ SimulatorClosed
    /\ opt_config \in OptConfigs(current_data.stats)
    /\ opt_view = [shown |-> FALSE]
    /\ OnPage(OptimizationPage)

\* the script runs show_optimization_recommendation
RenderOptimizer ==
    /\ ~opt_view.shown
    /\ opt_view' = RenderOptimization(opt_config, current_data.stats, hash_salt)
    /\ UNCHANGED <<hash_salt, history_vars, session_vars, upload_vars, simulator_vars,
                   opt_config, router_vars>>

OptimizerNext == RenderOptimizer

OptimizerSpec == OptimizerInit /\ [][OptimizerNext]_vars

\* the optimizer page has drawn its gauges and its table
OptimizationShown == opt_view.shown /\ ~opt_view.warning

\* C17 (spend within the global limit): in every row of the optimization
\* table the '全域投放量限制' value is the sum of the selected features'
\* spend and does not exceed global_limit, also when the unscaled total is 0.
C17_SpendWithinGlobalLimit ==
    OptimizationShown =>
        \A i \in DOMAIN opt_view.optimization_df :
            LET row == opt_view.optimization_df[i]
            IN  /\ row.actual_total =
                     RSum([k \in DOMAIN opt_config.selected_features |->
                              row.platform_costs[opt_config.selected_features[k]]])
                /\ RLeq(row.actual_total, opt_config.global_limit)

\* a table with a row whose unscaled total exceeded the limit and was scaled
\* down to at most the limit
C17_Witness ==
    /\ OptimizationShown
    /\ \E i \in DOMAIN opt_view.optimization_df :
          /\ RLess(opt_config.global_limit, opt_view.optimization_df[i].current_total)
          /\ RLess(RInt(0), opt_view.optimization_df[i].actual_total)
          /\ RLeq(opt_view.optimization_df[i].actual_total, opt_config.global_limit)

\* C18 (predictions between the 75% quantile and the maximum): in every row
\* and for every selected target the predicted value lies in [q75, max] of
\* the target's column, and so does the mean shown in the target's gauge.
C18_PredictionWithinQuantileAndMax ==
    OptimizationShown =>
        \A t \in Range(opt_config.selected_targets) :
            /\ \A i \in DOMAIN opt_view.optimization_df :
                  Within(current_data.stats[t].q75,
                         opt_view.optimization_df[i].predicted[t],
                         current_data.stats[t].max)
            /\ Within(current_data.stats[t].q75, opt_view.kpi[t], current_data.stats[t].max)

\* a table of several rows whose predictions for a target differ, with the
\* gauge's mean strictly between the quantile and the maximum
C18_Witness ==
    /\ OptimizationShown
    /\ Len(opt_view.optimization_df) >= 2
    /\ \E t \in Range(opt_config.selected_targets) :
          /\ opt_view.optimization_df[1].predicted[t] # opt_view.optimization_df[2].predicted[t]
          /\ RLess(current_data.stats[t].q75, opt_view.kpi[t])
          /\ RLess(opt_view.kpi[t], current_data.stats[t].max)

\* the delay selections with as many periods as delays: those of the sidebar,
\* and delays with every period moved a week on
SameLengthDelays(delays) ==
    {d \in DelayChoices : Len(d) = Len(delays)} \cup {[i \in DOMAIN delays |-> delays[i] + 7]}

\* C21 (delays count only by their number): an invocation returns the same
\* roi, contribution and trend for every pair as the invocation with any
\* other delay periods of the same number and the other inputs equal.
C21_DelaysOnlyByLength ==
    \A c \in Calls : \A d \in SameLengthDelays(c.delays) :
        generate_unified_effect_data(c.targets, c.features, d, c.date_range_key,
                                     c.control_vars, hash_salt, c.rng_before).unified_data
            = c.unified_data

\* an invocation over one delay period for which the sidebar offers another
\* selection of one period
C21_Witness ==
    \E c \in Calls :
        /\ Len(c.delays) = 1
        /\ \E d \in DelayChoices : Len(d) = 1 /\ d # c.delays
        /\ \A pair \in DOMAIN c.base_data : Len(c.base_data[pair].trend) = 1

(***************************************************************************)
(* Page routing: the module-level code that every run of the script        *)
(* executes before it draws a page.                                        *)
(***************************************************************************)

\* how many runs of the script a session is followed for
MaxRuns == 5

Pages == {HistoryPage, SimulationPage, OptimizationPage}

\* if 'current_page' not in st.session_state: current_page = the history page
DefaultPage(page) == IF page = None THEN HistoryPage ELSE page

\* the three ifs over the three buttons, one after the other
HandleButtons(page, page1_btn, page2_btn, page3_btn) ==
    Bind(IF page1_btn THEN HistoryPage ELSE page, LAMBDA after1 :
    Bind(IF page2_btn THEN SimulationPage ELSE after1, LAMBDA after2 :
         IF page3_btn THEN OptimizationPage ELSE after2))

\* an if without its elif: the history page falls through to the last else as well
RouteWithoutElif(page) ==
    (IF page = HistoryPage THEN {"show_history_analysis"} ELSE {})
        \cup (IF page = SimulationPage
              THEN {"show_future_simulation"}
              ELSE {"show_optimization_recommendation"})

\* the page functions the if / elif / else calls
Route(page) ==
    IF page = HistoryPage
    THEN {"show_history_analysis"}
    ELSE IF page = SimulationPage
         THEN {"show_future_simulation"}
         ELSE {"show_optimization_recommendation"}

\* what st.sidebar.button returns in a run: the button whose click caused the
\* run is True, every other button is False
NoButton == <<FALSE, FALSE, FALSE>>

\* one run of the script with the given button values; what the page function
\* itself does to the session is followed in the specifications of the pages
ScriptRun(buttons) ==
    /\ Len(nav_log) < MaxRuns
    /\ LET page == HandleButtons(DefaultPage(current_page),
                                 buttons[1], buttons[2], buttons[3])
       IN  /\ current_page' = page
           /\ nav_log' = Append(nav_log, [page_before |-> current_page,
                                          buttons     |-> buttons,
                                          page        |-> page,
                                          rendered    |-> Route(page)])
    /\ UNCHANGED <<hash_salt, history_vars, session_vars, upload_vars, simulator_vars,
                   optimizer_vars>>

\* the browser opens the application: the first run, before any button exists
OpenApp ==
    /\ current_page = None
    /\ ScriptRun(NoButton)

ClickPage1 ==
    /\ current_page # None
    /\ ScriptRun(<<TRUE, FALSE, FALSE>>)

ClickPage2 ==
    /\ current_page # None
    /\ ScriptRun(<<FALSE, TRUE, FALSE>>)

ClickPage3 ==
    /\ current_page # None
    /\ ScriptRun(<<FALSE, FALSE, TRUE>>)

\* a rerun caused by anything but a navigation button (a widget, st.rerun)
RerunScript ==
    /\ current_page # None
    /\ ScriptRun(NoButton)

RoutingInit ==
    /\ HistoryIdle
    /\ NoUpload
    /\ SimulatorClosed
    /\ OptimizerClosed
    /\ current_page = None
    /\ nav_log = <<>>

RoutingNext == OpenApp \/ ClickPage1 \/ ClickPage2 \/ ClickPage3 \/ RerunScript

RoutingSpec == RoutingInit /\ [][RoutingNext]_vars

\* the page of the button of a run in which a button was clicked
ButtonPage(buttons) ==
    IF buttons[1] THEN HistoryPage
    ELSE IF buttons[2] THEN SimulationPage ELSE OptimizationPage

\* the page of the last button clicked in runs 1..i, the history page if none was
LastClicked(i) ==
    LET clicks == {j \in 1..i : nav_log[j].buttons # NoButton}
    IN  IF clicks = {}
        THEN HistoryPage
        ELSE ButtonPage(nav_log[CHOOSE j \in clicks : \A k \in clicks : k <= j].buttons)

PageFunction(page) ==
    CASE page = HistoryPage      -> "show_history_analysis"
      [] page = SimulationPage   -> "show_future_simulation"
      [] page = OptimizationPage -> "show_optimization_recommendation"

\* C22 (page routing): current_page starts as the history page; a run in which
\* no navigation button is clicked leaves it as it was and a run in which one
\* is clicked sets it to the page of that button; after every run it is one of
\* the three page names, it is the page of the last button clicked (the history
\* page when none was), and the run renders exactly one page function, the one
\* of that page.
C22_PageRouting ==
    /\ nav_log # <<>> => current_page = nav_log[Len(nav_log)].page
    /\ \A i \in DOMAIN nav_log :
          LET run == nav_log[i]
          IN  /\ run.page \in Pages
              /\ i = 1 => run.page = HistoryPage
              /\ i > 1 /\ run.buttons = NoButton => run.page = run.page_before
              /\ run.buttons # NoButton => run.page = ButtonPage(run.buttons)
              /\ run.page = LastClicked(i)
              /\ run.rendered = {PageFunction(run.page)}

\* a session that went to the simulator, to the optimizer, was rerun there, and
\* came back to the history page
C22_Witness ==
    /\ Len(nav_log) = 5
    /\ nav_log[2].page = SimulationPage
    /\ nav_log[3].page = OptimizationPage
    /\ nav_log[4].buttons = NoButton
    /\ nav_log[5].buttons[1]
    /\ current_page = HistoryPage

\* the step is a run of the upload block in which process_uploaded_file was called
ParsedInStep ==
    /\ ~upload_run.ran
    /\ upload_run'.ran
    /\ upload_run'.processed

\* current_file_name and the dataset in use belong together
NameMatchesData ==
    /\ current_file_name = None <=> current_data \in DefaultDatasets
    /\ current_file_name # None =>
          /\ current_file_name \in FileNames
          /\ current_data.source = current_file_name

\* C23 (upload state): a file is parsed only in a run in which its name differs
\* from current_file_name; current_data and current_file_name change only in a
\* run whose parse succeeded, and then both at once, to the parsed table and
\* to the name of the parsed file; so at every moment current_file_name is None
\* exactly while the default dataset is in use, and otherwise it is the name of
\* the upload that current_data came from.
C23_UploadState ==
    /\ [](NameMatchesData)
    /\ [][/\ ParsedInStep => /\ uploaded_file # NoFile
                             /\ uploaded_file.name # current_file_name
          /\ (current_data' # current_data \/ current_file_name' # current_file_name) =>
                /\ ParsedInStep
                /\ process_uploaded_file(uploaded_file) # NoTable
                /\ current_data' = process_uploaded_file(uploaded_file)
                /\ current_file_name' = uploaded_file.name
          /\ ParsedInStep /\ process_uploaded_file(uploaded_file) = NoTable =>
                UNCHANGED session_vars]_vars

\* a successfully parsed b.csv replaced the table of an earlier upload a.csv
C23_Witness ==
    /\ upload_run.ran
    /\ upload_run.processed
    /\ upload_run.message = "success"
    /\ upload_run.name_before = "a.csv"
    /\ upload_run.data_before.source = "a.csv"
    /\ current_file_name = "b.csv"
    /\ current_data = upload_run.processed_data

====
